---- MODULE Spec2Model ----
(***************************************************************************)
(* A model of the useStreamAudio hook (src/src/useStreamAudio.ts) and of   *)
(* the two engines it drives, useWebAudio and useHTML5Audio                *)
(* (src/src/index.ts).                                                     *)
(*                                                                         *)
(* Time is counted in sample periods: a chunk of n samples lasts n ticks   *)
(* (AudioBuffer.duration = length / sampleRate).  The AudioContext clock,  *)
(* the media element's position and the observable currentTime are in the  *)
(* same unit.                                                              *)
(*                                                                         *)
(* One step of the model is one JavaScript task: an event handler, a timer *)
(* callback or the continuation of streamAudio after an await, followed by *)
(* the React render it causes and the effects of that render (Settle).     *)
(* Functions called by the user are those of the latest render; the        *)
(* continuation of streamAudio and the listeners it registers keep the     *)
(* closure of the render streamAudio was called from.                      *)
(*                                                                         *)
(* The browser objects are modelled at their interface: an                 *)
(* AudioBufferSourceNode started at a time already past begins at once, a  *)
(* stopped or finished node dispatches 'ended' once, the media element     *)
(* fires 'canplay' after a resource was set and 'ended' when its position  *)
(* reaches the resource's length.                                          *)
(***************************************************************************)
EXTENDS Integers, Sequences, FiniteSets, TLC

\* ---------------------------------------------------------------- bounds
\* Spec: streamAudio calls, chunks delivered (over all calls), calls of a control
MaxSessions == 2
MaxChunks == 2
MaxCalls == 1
\* SoloSpec: chunks delivered, calls of a control
MaxSoloChunks == 3
MaxSoloCalls == 2
\* RewindSpec: chunks delivered, calls of a control
MaxRewindChunks == 2
MaxRewindCalls == 2
\* FailSpec: chunks delivered, calls of a control
MaxFailChunks == 2
MaxFailCalls == 1
\* UnmountSpec: chunks delivered, calls of a control
MaxUnmountChunks == 2
MaxUnmountCalls == 1
\* DecodeSpec: chunks delivered, bytes delivered, bytes per chunk
MaxByteChunks == 3
MaxBytes == 8
MaxChunkLen == 5
\* ticks of the context clock and of the element's position
MaxTime == 3

\* The interval of the polling timer, in ticks.
PollTicks == 1

\* Byte values a stream may carry (the top byte stays below 128 so that a
\* sample's bit pattern fits TLC's integers).
ByteVals == {0, 1}

\* Chunk lengths (bytes) of the streams of the full specification.
ChunkLens == {2, 4}

\* The seconds rewind is called with (5 is its default).
RewindSecs == {1, 5}

VARIABLES
  enableTransition,     \* option (useStreamAudio.ts:63)
  isPlaying,            \* React state (useStreamAudio.ts:69)
  isAudioReady,         \* React state (useStreamAudio.ts:70)
  isAudioTransitioned,  \* React state (useStreamAudio.ts:71)
  currentTime,          \* React state (useStreamAudio.ts:89)
  duration,             \* React state (useStreamAudio.ts:90)
  isAudioSuspended,     \* React state (index.ts:29)
  ctxState,             \* AudioContext.state
  ctxTime,              \* AudioContext.currentTime
  activeSources,        \* ref (index.ts:27): ids of the nodes pushed
  isAudioPlaying,       \* ref (index.ts:28): the liveness flag
  sources,              \* every AudioBufferSourceNode created so far
  audio,                \* the HTMLAudioElement (index.ts:166) and its listeners
  sess,                 \* the streamAudio invocations, oldest first
  timerAge,             \* ticks since the polling interval was (re)started
  calls,                \* how many times the caller used a control
  fx                    \* what the last step did (observer's record)

vars == << enableTransition, isPlaying, isAudioReady, isAudioTransitioned,
           currentTime, duration, isAudioSuspended, ctxState, ctxTime,
           activeSources, isAudioPlaying, sources, audio, sess, timerAge, calls, fx >>

\* ------------------------------------------------------------- helpers
Range(s) == { s[i] : i \in DOMAIN s }

Max(a, b) == IF a >= b THEN a ELSE b

RECURSIVE Flatten(_)
Flatten(ss) == IF ss = << >> THEN << >> ELSE Head(ss) \o Flatten(Tail(ss))

RECURSIVE SumLen(_)
SumLen(ss) == IF ss = << >> THEN 0 ELSE Len(Head(ss)) + SumLen(Tail(ss))

RECURSIVE SeqsUpTo(_, _)
SeqsUpTo(S, n) ==
  IF n = 0 THEN { << >> }
  ELSE LET shorter == SeqsUpTo(S, n - 1)
       IN shorter \cup { Append(q, x) : q \in { r \in shorter : Len(r) = n - 1 }, x \in S }

\* The whole state as one record, so that a handler is a function of it.
World ==
  [ enableTransition |-> enableTransition, isPlaying |-> isPlaying,
    isAudioReady |-> isAudioReady, isAudioTransitioned |-> isAudioTransitioned,
    currentTime |-> currentTime, duration |-> duration,
    isAudioSuspended |-> isAudioSuspended, ctxState |-> ctxState,
    ctxTime |-> ctxTime, activeSources |-> activeSources,
    isAudioPlaying |-> isAudioPlaying, sources |-> sources, audio |-> audio,
    sess |-> sess, timerAge |-> timerAge, calls |-> calls, fx |-> fx ]

Put(w) ==
  /\ enableTransition' = w.enableTransition
  /\ isPlaying' = w.isPlaying
  /\ isAudioReady' = w.isAudioReady
  /\ isAudioTransitioned' = w.isAudioTransitioned
  /\ currentTime' = w.currentTime
  /\ duration' = w.duration
  /\ isAudioSuspended' = w.isAudioSuspended
  /\ ctxState' = w.ctxState
  /\ ctxTime' = w.ctxTime
  /\ activeSources' = w.activeSources
  /\ isAudioPlaying' = w.isAudioPlaying
  /\ sources' = w.sources
  /\ audio' = w.audio
  /\ sess' = w.sess
  /\ timerAge' = w.timerAge
  /\ calls' = w.calls
  /\ fx' = w.fx

NoFx == [ effects |-> 0, ended |-> 0, polled |-> FALSE, rewind |-> 0, call |-> "" ]

\* The state a handler starts from: nothing done yet in this step.
Begin(name) == [ World EXCEPT !.fx = NoFx ]

\* The React state: a render happens when a handler changed any of it.
ReactState(w) ==
  << w.isPlaying, w.isAudioReady, w.isAudioTransitioned, w.currentTime,
     w.duration, w.isAudioSuspended >>

\* -------------------------------------------------- useWebAudio (index.ts)
\* updatePlayingState (the onPlayingChange both engines are given)
UpdatePlayingState(w, playing) == [ w EXCEPT !.isPlaying = playing ]

\* AudioBufferSourceNode.stop(): a node that has not finished yet stops and
\* will dispatch 'ended'; on a finished node it does nothing.
StopNode(n) == IF n.state = "live" THEN [ n EXCEPT !.state = "ending" ] ELSE n

\* (mutant) the nodes are stopped but the liveness flag is left alone
StopStreamKeepsFlag(w) ==
  UpdatePlayingState(
    [ w EXCEPT !.sources = [ i \in DOMAIN w.sources |->
                               IF i \in Range(w.activeSources)
                               THEN StopNode(w.sources[i]) ELSE w.sources[i] ],
               !.activeSources = << >> ],
    FALSE)

StopStream(w) ==
  UpdatePlayingState(
    [ w EXCEPT !.isAudioPlaying = FALSE,
               !.sources = [ i \in DOMAIN w.sources |->
                               IF i \in Range(w.activeSources)
                               THEN StopNode(w.sources[i]) ELSE w.sources[i] ],
               !.activeSources = << >> ],
    FALSE)

\* suspend(); the 'statechange' it raises sets isAudioSuspended (index.ts:44-46)
PauseStream(w) ==
  UpdatePlayingState(
    [ w EXCEPT !.ctxState = "suspended", !.isAudioSuspended = TRUE ], FALSE)

\* resume(), with its 'statechange'
ResumeContext(w) == [ w EXCEPT !.ctxState = "running", !.isAudioSuspended = FALSE ]

PlayStream(w) == UpdatePlayingState(ResumeContext(w), TRUE)

WebGetCurrentTime(w) == w.ctxTime

WebResetState(w) == StopStream(w)

\* ------------------------------------------------ useHTML5Audio (index.ts)
StopAudio(w) ==
  UpdatePlayingState([ w EXCEPT !.audio.paused = TRUE, !.audio.pos = 0 ], FALSE)

PauseAudio(w) == UpdatePlayingState([ w EXCEPT !.audio.paused = TRUE ], FALSE)

PlayAudio(w) == UpdatePlayingState([ w EXCEPT !.audio.paused = FALSE ], TRUE)

\* (mutant) the element is sent back to its start
RewindAudioToStart(w, seconds, wasPlaying) ==
  LET a == [ w EXCEPT !.audio.pos = 0 ]
  IN IF wasPlaying THEN PlayAudio(a) ELSE a

RewindAudio(w, seconds, wasPlaying) ==
  LET a == [ w EXCEPT !.audio.pos = Max(0, w.audio.pos - seconds) ]
  IN IF wasPlaying THEN PlayAudio(a) ELSE a

\* addEventListener('canplay', .., {once}) and addEventListener('ended', ..)
SetupAudioListeners(w, s) ==
  [ w EXCEPT !.audio.canplay = @ \cup {s}, !.audio.ended = @ \cup {s} ]

\* audio.src = url: the element loads the new resource from its start, paused
SetAudioSource(w, s, len) ==
  [ w EXCEPT !.audio.src = s, !.audio.dur = len, !.audio.pos = 0,
             !.audio.paused = TRUE, !.audio.loading = TRUE ]

HtmlSetCurrentTime(w, time) == [ w EXCEPT !.audio.pos = time ]

HtmlGetCurrentTime(w) == w.audio.pos

\* ------------------------------------------- useStreamAudio: the controls
\* stop(), in the closure of a render whose isAudioTransitioned was `transitioned`
Stop(w, transitioned) ==
  UpdatePlayingState(IF transitioned THEN StopAudio(w) ELSE StopStream(w), FALSE)

Play(w) == IF w.isAudioTransitioned THEN PlayAudio(w) ELSE PlayStream(w)

Pause(w) == IF w.isAudioTransitioned THEN PauseAudio(w) ELSE PauseStream(w)

Rewind(w, seconds) ==
  IF w.isAudioTransitioned THEN RewindAudio(w, seconds, w.isPlaying) ELSE w

ResetState(w) ==
  WebResetState(
    [ Stop(w, w.isAudioTransitioned) EXCEPT !.isAudioReady = FALSE,
                                            !.isAudioTransitioned = FALSE ])

\* ------------------------------------------ useStreamAudio: the effects
\* (mutant) the handoff starts the element without stopping the stream
TransitionEffectNoStop(w) ==
  IF ~ w.enableTransition \/ ~ w.isAudioReady THEN w
  ELSE LET a == [ HtmlSetCurrentTime(w, w.currentTime)
                    EXCEPT !.isAudioTransitioned = TRUE, !.fx.effects = @ + 1 ]
       IN IF w.isPlaying THEN PlayAudio(a) ELSE a

\* The transition effect, run after a render that showed the state w.
TransitionEffect(w) ==
  IF ~ w.enableTransition \/ ~ w.isAudioReady THEN w
  ELSE LET currentPosition == w.currentTime
           a == [ HtmlSetCurrentTime(w, currentPosition)
                    EXCEPT !.isAudioTransitioned = TRUE, !.fx.effects = @ + 1 ]
       IN IF w.isPlaying THEN PlayAudio(StopStream(a)) ELSE a

\* The time-tracking effect: its dependencies (the objects the two engine
\* hooks return) are new at every render, so every render clears the interval
\* and, when isPlaying is true, starts a new one.
TimeTrackingEffect(w) == [ w EXCEPT !.timerAge = 0 ]

\* A handler that changed the React state is followed by a render and the
\* effects of that render; a state the effects change is rendered again.
RECURSIVE Settle(_, _)
Settle(shown, w) ==
  IF ReactState(w) = shown THEN w
  ELSE Settle(ReactState(w), TransitionEffect(TimeTrackingEffect(w)))

\* One task: the handler's result w, rendered from the state the step began in.
Commit(w) == Put(Settle(ReactState(World), w))

\* --------------------------------------- useStreamAudio: streamAudio
\* new Float32Array(data.buffer, 0, length / 4): sample k is the 32-bit word
\* made of bytes 4k-3 .. 4k, least significant byte first.
SampleAt(data, k) ==
  data[4 * k - 3] + 256 * data[4 * k - 2] + 65536 * data[4 * k - 1]
    + 16777216 * data[4 * k]

DecodeSamples(data) == [ k \in 1 .. (Len(data) \div 4) |-> SampleAt(data, k) ]

\* (mutant) the partial sample is forgotten
DecodeLeftoverDropped(data) == << >>

\* (mutant) the remainder is taken from the front of the data
DecodeLeftoverHead(data) == SubSeq(data, 1, Len(data) % 4)

\* new Uint8Array(data.buffer, length, remainder)
DecodeLeftover(data) == SubSeq(data, (Len(data) \div 4) * 4 + 1, Len(data))

\* source.start(startTime): the node plays from max(startTime, now) for the
\* length of its buffer.
NewNode(w, s, audioBuffer, startTime) ==
  [ buffer |-> audioBuffer, start |-> startTime, dur |-> Len(audioBuffer),
    begin |-> Max(startTime, w.ctxTime), state |-> "live", sess |-> s,
    listener |-> FALSE ]

CreateAndScheduleAudioSource(w, s, audioBuffer, startTime) ==
  [ w EXCEPT !.sources = Append(@, NewNode(w, s, audioBuffer, startTime)),
             !.activeSources = Append(@, Len(w.sources) + 1) ]

\* (mutant) the next start time taken from the device clock at arrival
AdvanceStartTimeFromClock(w, s, len) == Max(w.sess[s].nextStartTime, w.ctxTime) + len

\* nextStartTime += audioBuffer.duration (line 195)
AdvanceStartTime(w, s, len) == w.sess[s].nextStartTime + len

\* The body of the ingestion loop for one chunk (lines 161-196).
ProcessChunk(w, s, value) ==
  LET data == w.sess[s].leftover \o value
      buffer == DecodeSamples(data)
      a == [ w EXCEPT !.sess[s].leftover = DecodeLeftover(data),
                      !.sess[s].input = @ \o value,
                      !.sess[s].consumed = Len(data) - Len(DecodeLeftover(data)) ]
  IN IF Len(buffer) = 0 THEN a
     ELSE [ CreateAndScheduleAudioSource(a, s, buffer, w.sess[s].nextStartTime)
              EXCEPT !.sess[s].allBuffers = Append(@, buffer),
                     !.sess[s].totalDuration = @ + Len(buffer),
                     !.sess[s].source = Len(w.sources) + 1,
                     !.sess[s].nextStartTime = AdvanceStartTime(w, s, Len(buffer)) ]

\* source?.addEventListener('ended', .., {once: true})
ListenOnLastSource(w, s) ==
  IF w.sess[s].source = 0 THEN w
  ELSE [ w EXCEPT !.sources[w.sess[s].source].listener = TRUE ]

\* (mutant) the copy starts at the second chunk
CompleteBufferSkipsFirst(w, s) ==
  IF w.sess[s].allBuffers = << >> THEN << >> ELSE Flatten(Tail(w.sess[s].allBuffers))

\* The complete buffer: every saved chunk, in order (lines 202-209).
CompleteBuffer(w, s) == Flatten(w.sess[s].allBuffers)

\* (mutant) the end of the stream is finalized as if transition were enabled
FinalizeIgnoresOption(w, s) ==
  IF SumLen(w.sess[s].allBuffers) = 0
  THEN [ w EXCEPT !.sess[s].pc = "threw" ]
  ELSE LET completeBuffer == CompleteBuffer(w, s)
           a == [ w EXCEPT !.duration = Len(completeBuffer),
                           !.sess[s].complete = completeBuffer,
                           !.sess[s].finalized = @ + 1 ]
       IN ListenOnLastSource(
            SetupAudioListeners(SetAudioSource(a, s, Len(completeBuffer)), s), s)

\* After a read that signalled the end (lines 200-259).  createBuffer rejects
\* a length of 0, which ends the call with that error.
Finalize(w, s) ==
  IF w.enableTransition
  THEN IF SumLen(w.sess[s].allBuffers) = 0
       THEN [ w EXCEPT !.sess[s].pc = "threw" ]
       ELSE LET completeBuffer == CompleteBuffer(w, s)
                a == [ w EXCEPT !.duration = Len(completeBuffer),
                                !.sess[s].complete = completeBuffer,
                                !.sess[s].finalized = @ + 1 ]
            IN ListenOnLastSource(
                 SetupAudioListeners(SetAudioSource(a, s, Len(completeBuffer)), s), s)
  ELSE ListenOnLastSource(w, s)

\* The test of the while loop (line 160) and, when it passes, one iteration
\* up to the next await.
LoopStep(w, s, result) ==
  IF w.sess[s].pc = "threw" THEN w
  ELSE IF ~ result.done /\ w.isAudioPlaying
       THEN [ ProcessChunk(w, s, result.value) EXCEPT !.sess[s].pc = "next" ]
       ELSE [ w EXCEPT !.sess[s].pc = "returned" ]

\* The continuation of streamAudio when reader.read() resolves with `result`.
Resume(w, s, result) ==
  LET r == [ w EXCEPT !.sess[s].eos = result.done,
                      !.sess[s].chunks = @ + (IF result.done THEN 0 ELSE 1) ]
  IN IF w.sess[s].pc = "first"
     THEN LoopStep(UpdatePlayingState(r, TRUE), s, result)
     ELSE LoopStep(IF result.done THEN Finalize(r, s) ELSE r, s, result)

NewSession(w) ==
  [ pc |-> "first", closTransitioned |-> w.isAudioTransitioned,
    t0 |-> WebGetCurrentTime(w), nextStartTime |-> WebGetCurrentTime(w),
    totalDuration |-> 0, allBuffers |-> << >>, leftover |-> << >>,
    source |-> 0, input |-> << >>, consumed |-> 0, eos |-> FALSE, chunks |-> 0,
    complete |-> << >>, finalized |-> 0, onEnded |-> 0 ]

\* streamAudio up to its first await (lines 144-154)
StartStream(w) ==
  LET a == [ ResetState(w) EXCEPT !.isAudioPlaying = TRUE, !.currentTime = 0 ]
  IN [ a EXCEPT !.sess = Append(@, NewSession(w)) ]

\* ------------------------------------------------------- the state machine
InitAudio ==
  [ src |-> 0, dur |-> 0, pos |-> 0, paused |-> TRUE, loading |-> FALSE,
    canplay |-> {}, ended |-> {}, endpending |-> FALSE ]

\* The hook after its mount effects: the AudioContext and the Audio element
\* exist, nothing was streamed.
Init ==
  /\ enableTransition \in BOOLEAN
  /\ isPlaying = FALSE
  /\ isAudioReady = FALSE
  /\ isAudioTransitioned = FALSE
  /\ currentTime = 0
  /\ duration = 0
  /\ isAudioSuspended = FALSE
  /\ ctxState = "running"
  /\ ctxTime = 0
  /\ activeSources = << >>
  /\ isAudioPlaying = FALSE
  /\ sources = << >>
  /\ audio = InitAudio
  /\ sess = << >>
  /\ timerAge = 0
  /\ calls = 0
  /\ fx = NoFx

\* What a read can resolve with.
Done == [ done |-> TRUE, value |-> << >> ]

Chunk(bytes) == [ done |-> FALSE, value |-> bytes ]

ZeroChunk(n) == Chunk([ i \in 1 .. n |-> 0 ])

\* The caller calls streamAudio(stream); at most maxSessions calls are made.
StreamAudio(maxSessions) ==
  /\ Len(sess) < maxSessions
  /\ Commit(StartStream(Begin("streamAudio")))

\* The chunks delivered so far to the first n sessions.
RECURSIVE Delivered(_)
Delivered(n) == IF n = 0 THEN 0 ELSE sess[n].chunks + Delivered(n - 1)

\* reader.read() of session s resolves with `result`.
Arrive(s, result) ==
  /\ sess[s].pc \in { "first", "next" }
  /\ ~ sess[s].eos
  /\ Commit(Resume(Begin("read"), s, result))

ReadResolves(maxChunks) ==
  \E s \in DOMAIN sess : \E n \in ChunkLens :
    /\ Delivered(Len(sess)) < maxChunks
    /\ Arrive(s, ZeroChunk(n))

ReadEnds == \E s \in DOMAIN sess : Arrive(s, Done)

\* (mutant) a failed read tears the stream down
RejectStopsStream(w, s) == StopStream([ w EXCEPT !.sess[s].pc = "failed" ])

\* The awaited reader.read() rejects: nothing catches it, so the streamAudio
\* call ends there, rejected with that error.
Reject(w, s) == [ w EXCEPT !.sess[s].pc = "failed" ]

\* reader.read() of session s fails.
ReadFails ==
  \E s \in DOMAIN sess :
    /\ sess[s].pc \in { "first", "next" }
    /\ ~ sess[s].eos
    /\ Commit(Reject(Begin("readFailed"), s))

\* A control is called: the model counts the calls to bound them.
Control(name) == [ Begin(name) EXCEPT !.calls = @ + 1, !.fx.call = name ]

CallPlay(maxCalls) == calls < maxCalls /\ Commit(Play(Control("play")))

CallPause(maxCalls) == calls < maxCalls /\ Commit(Pause(Control("pause")))

CallStop(maxCalls) == calls < maxCalls /\ Commit(Stop(Control("stop"), isAudioTransitioned))

\* The caller calls rewind(seconds).
CallRewind(maxCalls) ==
  \E seconds \in RewindSecs :
    /\ calls < maxCalls
    /\ Commit(Rewind([ Control("rewind") EXCEPT !.fx.rewind = seconds ], seconds))

\* click / touchend while the unlock listeners are registered (index.ts:56-70)
Unlock ==
  /\ isAudioSuspended
  /\ Commit(ResumeContext(Begin("unlock")))

\* The element fires 'canplay' for the resource it was given.
OnCanPlay(w) ==
  [ w EXCEPT !.audio.loading = FALSE, !.audio.canplay = {},
             !.isAudioReady = IF w.audio.canplay # {} THEN TRUE ELSE @ ]

CanPlay ==
  /\ audio.loading
  /\ Commit(OnCanPlay(Begin("canplay")))

\* One 'ended' listener registered by session s: stop(); onEnded?.()
OnEnded(w, s) ==
  [ Stop(w, w.sess[s].closTransitioned) EXCEPT !.fx.ended = @ + 1,
                                               !.sess[s].onEnded = @ + 1 ]

\* A node dispatches 'ended'.
OnSourceEnded(w, i) ==
  LET a == [ w EXCEPT !.sources[i].state = "over", !.sources[i].listener = FALSE ]
  IN IF w.sources[i].listener THEN OnEnded(a, w.sources[i].sess) ELSE a

SourceEnded ==
  \E i \in DOMAIN sources :
    /\ sources[i].state = "ending"
    /\ Commit(OnSourceEnded(Begin("sourceEnded"), i))

\* The element dispatches 'ended' to every listener registered on it.
RECURSIVE OnAudioEnded(_, _)
OnAudioEnded(w, listeners) ==
  IF listeners = {} THEN w
  ELSE LET s == CHOOSE x \in listeners : \A y \in listeners : x <= y
       IN OnAudioEnded(OnEnded(w, s), listeners \ {s})

AudioEnded ==
  /\ audio.endpending
  /\ Commit(OnAudioEnded([ Begin("audioEnded") EXCEPT !.audio.endpending = FALSE ],
                         audio.ended))

\* (mutant) the interval always reads the scheduler clock
OnPollReadsClock(w) ==
  [ w EXCEPT !.currentTime = WebGetCurrentTime(w),
             !.timerAge = 0, !.fx.polled = TRUE ]

\* The interval callback (lines 96-101).
OnPoll(w) ==
  [ w EXCEPT !.currentTime = IF w.isAudioTransitioned THEN HtmlGetCurrentTime(w)
                             ELSE WebGetCurrentTime(w),
             !.timerAge = 0, !.fx.polled = TRUE ]

Poll ==
  /\ isPlaying
  /\ timerAge >= PollTicks
  /\ Commit(OnPoll(Begin("poll")))

\* Which engine is audible.
NodeAudible(n, now) == n.state = "live" /\ n.begin <= now /\ now < n.begin + n.dur

WebAudible ==
  ctxState = "running" /\ \E i \in DOMAIN sources : NodeAudible(sources[i], ctxTime)

AudioRunning(a) == a.src # 0 /\ ~ a.paused /\ ~ a.loading

Html5Audible == AudioRunning(audio) /\ audio.pos < audio.dur

\* One tick of time passes: the running clocks advance, nodes that played to
\* their end and an element that reached its end have 'ended' to dispatch.
AudioAfterTick(a) ==
  IF ~ AudioRunning(a) THEN a
  ELSE LET p == IF a.pos < a.dur THEN a.pos + 1 ELSE a.pos
       IN IF p >= a.dur THEN [ a EXCEPT !.pos = p, !.paused = TRUE, !.endpending = TRUE ]
          ELSE [ a EXCEPT !.pos = p ]

NodeAfterTick(n, now) ==
  IF n.state = "live" /\ n.begin + n.dur <= now THEN [ n EXCEPT !.state = "ending" ] ELSE n

Tick ==
  /\ ~ (isPlaying /\ timerAge >= PollTicks)
  /\ ~ audio.endpending
  /\ \A i \in DOMAIN sources : sources[i].state # "ending"
  /\ ctxTime < MaxTime
  /\ audio.pos < MaxTime
  /\ ctxState = "running" \/ AudioRunning(audio) \/ isPlaying
  /\ LET now == IF ctxState = "running" THEN ctxTime + 1 ELSE ctxTime
     IN /\ ctxTime' = now
        /\ sources' = [ i \in DOMAIN sources |-> NodeAfterTick(sources[i], now) ]
        /\ audio' = AudioAfterTick(audio)
        /\ timerAge' = IF isPlaying /\ timerAge >= 0 THEN timerAge + 1 ELSE timerAge
        /\ fx' = NoFx
        /\ UNCHANGED << enableTransition, isPlaying, isAudioReady, isAudioTransitioned,
                        currentTime, duration, isAudioSuspended, ctxState,
                        activeSources, isAudioPlaying, sess, calls >>

\* The hook with re-entrant streamAudio calls.
Next ==
  \/ StreamAudio(MaxSessions)
  \/ ReadResolves(MaxChunks)
  \/ ReadEnds
  \/ CallPlay(MaxCalls)
  \/ CallPause(MaxCalls)
  \/ CallStop(MaxCalls)
  \/ Unlock
  \/ CanPlay
  \/ SourceEnded
  \/ AudioEnded
  \/ Poll
  \/ Tick

Spec == Init /\ [][Next]_vars

\* One streamAudio call, a longer stream and more calls of the controls.
SoloNext ==
  \/ StreamAudio(1)
  \/ ReadResolves(MaxSoloChunks)
  \/ ReadEnds
  \/ CallPlay(MaxSoloCalls)
  \/ CallPause(MaxSoloCalls)
  \/ CallStop(MaxSoloCalls)
  \/ Unlock
  \/ CanPlay
  \/ SourceEnded
  \/ AudioEnded
  \/ Poll
  \/ Tick

SoloSpec == Init /\ [][SoloNext]_vars

\* One streamAudio call whose caller also uses rewind.
RewindNext ==
  \/ StreamAudio(1)
  \/ ReadResolves(MaxRewindChunks)
  \/ ReadEnds
  \/ CallPlay(MaxRewindCalls)
  \/ CallPause(MaxRewindCalls)
  \/ CallStop(MaxRewindCalls)
  \/ CallRewind(MaxRewindCalls)
  \/ Unlock
  \/ CanPlay
  \/ SourceEnded
  \/ AudioEnded
  \/ Poll
  \/ Tick

RewindSpec == Init /\ [][RewindNext]_vars

\* One streamAudio call whose stream may fail.
FailNext ==
  \/ StreamAudio(1)
  \/ ReadResolves(MaxFailChunks)
  \/ ReadEnds
  \/ ReadFails
  \/ CallPlay(MaxFailCalls)
  \/ CallPause(MaxFailCalls)
  \/ CallStop(MaxFailCalls)
  \/ Unlock
  \/ CanPlay
  \/ SourceEnded
  \/ AudioEnded
  \/ Poll
  \/ Tick

FailSpec == Init /\ [][FailNext]_vars

\* ------------------------------------------------------------- unmount
\* The hook is mounted until cleanup() has closed its AudioContext.
Mounted == ctxState # "closed"

\* clearInterval(timeIntervalRef.current): no interval is left to fire
ClearInterval(w) == [ w EXCEPT !.timerAge = -1 ]

\* useHTML5Audio cleanup: only the 'ended' listener registered last is
\* removed (it belongs to the session whose resource the element holds).
HtmlCleanup(w) ==
  [ w EXCEPT !.audio.ended = @ \ {w.audio.src},
             !.audio.paused = TRUE, !.audio.pos = 0 ]

\* useWebAudio cleanup: close the context, then stopStream()
WebCleanup(w) == StopStream([ w EXCEPT !.ctxState = "closed" ])

Cleanup(w) == WebCleanup(HtmlCleanup(ClearInterval(w)))

\* A state update of an unmounted component is dropped: the React state
\* stays what it was in w0.
Frozen(w0, w) ==
  [ w EXCEPT !.isPlaying = w0.isPlaying, !.isAudioReady = w0.isAudioReady,
             !.isAudioTransitioned = w0.isAudioTransitioned,
             !.currentTime = w0.currentTime, !.duration = w0.duration,
             !.isAudioSuspended = w0.isAudioSuspended ]

\* The component unmounts: the effect cleanups run, among them cleanup().
Unmount ==
  /\ Mounted
  /\ Put(Frozen(World, Cleanup(Begin("unmount"))))

\* A node stopped by cleanup() dispatches its 'ended' after the unmount.
SourceEndedUnmounted ==
  \E i \in DOMAIN sources :
    /\ ~ Mounted
    /\ sources[i].state = "ending"
    /\ Put(Frozen(World, OnSourceEnded(Begin("sourceEnded"), i)))

\* One streamAudio call on a hook that is unmounted at any moment; the caller
\* does not use the hook after the unmount and the stream delivers nothing more.
UnmountNext ==
  \/ Mounted /\ StreamAudio(1)
  \/ Mounted /\ ReadResolves(MaxUnmountChunks)
  \/ Mounted /\ ReadEnds
  \/ Mounted /\ CallPlay(MaxUnmountCalls)
  \/ Mounted /\ CallPause(MaxUnmountCalls)
  \/ Mounted /\ CallStop(MaxUnmountCalls)
  \/ Mounted /\ Unlock
  \/ Mounted /\ CanPlay
  \/ Mounted /\ SourceEnded
  \/ Mounted /\ AudioEnded
  \/ Unmount
  \/ SourceEndedUnmounted
  \/ Poll
  \/ Tick

UnmountSpec == Init /\ [][UnmountNext]_vars

\* One streamAudio call fed arbitrary bytes in arbitrary chunks.
ByteChunks == SeqsUpTo(ByteVals, MaxChunkLen)

ReadBytes ==
  \E s \in DOMAIN sess : \E bytes \in ByteChunks :
    /\ sess[s].chunks < MaxByteChunks
    /\ Len(sess[s].input) + Len(bytes) <= MaxBytes
    /\ Arrive(s, Chunk(bytes))

DecodeNext ==
  \/ StreamAudio(1)
  \/ ReadBytes
  \/ ReadEnds

DecodeSpec == Init /\ [][DecodeNext]_vars

\* ------------------------------------------------------------------ claims
NoDoubleAudio == ~ (WebAudible /\ Html5Audible)

\* 'canplay' reaches the hook while isPlaying is true and transition is enabled.
CanPlayWhilePlaying ==
  enableTransition /\ isPlaying /\ ~ isAudioReady /\ isAudioReady'

HandedOff ==
  /\ isAudioTransitioned'
  /\ activeSources' = << >>
  /\ \A i \in DOMAIN sources' : sources'[i].state # "live"
  /\ AudioRunning(audio')
  /\ audio'.pos = currentTime
  /\ isPlaying'

\* C1: when 'canplay' arrives while isPlaying is true (transition enabled), the
\* same step leaves isAudioTransitioned true, every source node stopped and
\* activeSources empty, and the element playing from the captured currentTime;
\* and in no reachable state are a source node and the element both audible.
C1_HandoffWhilePlaying ==
  /\ [] NoDoubleAudio
  /\ [][CanPlayWhilePlaying => HandedOff]_vars

C1_Witness ==
  /\ fx.effects > 0 /\ isPlaying /\ isAudioTransitioned
  /\ AudioRunning(audio) /\ activeSources = << >>
  /\ \E i \in DOMAIN sources :
       sources[i].state = "ending" /\ ctxTime < sources[i].begin + sources[i].dur

\* A step of a transitioned session in which no streamAudio call is made.
SameTransitionedSession == isAudioTransitioned /\ Len(sess') = Len(sess)

\* C2: once isAudioTransitioned is true it stays true, and no step runs the
\* body of the transition effect again (seek, onAudioReady, stopStream and
\* playAudio), until streamAudio is called again.
C2_TransitionOnce ==
  [][SameTransitionedSession => (isAudioTransitioned' /\ fx'.effects = 0)]_vars

\* The element holds the resource of session s and has fired 'canplay' for it.
ReadyFor(s) == audio.src = s /\ ~ audio.loading

\* C3: isAudioTransitioned is true only if the stream of the latest streamAudio
\* call has ended, transition is enabled and the element is ready for that
\* call's resource; and a streamAudio call leaves isAudioReady and
\* isAudioTransitioned false.
C3_TransitionPreconditions ==
  /\ [] (isAudioTransitioned =>
           /\ sess # << >>
           /\ sess[Len(sess)].eos
           /\ enableTransition
           /\ ReadyFor(Len(sess)))
  /\ [][Len(sess') > Len(sess) => (~ isAudioReady' /\ ~ isAudioTransitioned')]_vars

\* The nodes session s has scheduled, in scheduling order.
NodesOf(srcs, s) == SelectSeq(srcs, LAMBDA n : n.sess = s)

\* C4: after a later streamAudio call, the ingestion loop of an earlier call
\* accumulates no further chunk and schedules no further node.
C4_OneSessionAtATime ==
  [][\A s \in DOMAIN sess :
       s < Len(sess) =>
         /\ sess'[s].allBuffers = sess[s].allBuffers
         /\ sess'[s].input = sess[s].input
         /\ Len(NodesOf(sources', s)) = Len(NodesOf(sources, s))]_vars

\* C5: the start times one session passes to the device are contiguous:
\* start(i+1) = start(i) + duration(i).
C5_Contiguity ==
  \A s \in DOMAIN sess :
    LET ns == NodesOf(sources, s)
    IN \A i \in 1 .. Len(ns) - 1 : ns[i + 1].start = ns[i].start + ns[i].dur

\* Three chunks scheduled around a chunk without a whole sample, a chunk that
\* arrived after its start time, and calls of the controls in between.
C5_Witness ==
  /\ calls = 2
  /\ \E s \in DOMAIN sess :
       /\ Len(NodesOf(sources, s)) >= 2
       /\ sess[s].chunks = 3
       /\ \E i \in DOMAIN sources : sources[i].begin > sources[i].start

\* C6: after every decode step at most 3 bytes are left over, the bytes the
\* step consumed are a multiple of 4, and 4 * (samples decoded) + (bytes left
\* over) = bytes received.
C6_ByteConservation ==
  \A s \in DOMAIN sess :
    /\ Len(sess[s].leftover) <= 3
    /\ sess[s].consumed % 4 = 0
    /\ 4 * SumLen(sess[s].allBuffers) + Len(sess[s].leftover) = Len(sess[s].input)

\* Chunks of 3 and 5 bytes: 0 samples and 3 bytes left, then 2 samples and none.
C6_Witness ==
  \E s \in DOMAIN sess :
    /\ sess[s].eos /\ sess[s].chunks = 2 /\ Len(sess[s].input) = 8
    /\ Len(sess[s].allBuffers) = 1 /\ Len(sess[s].allBuffers[1]) = 2
    /\ sess[s].leftover = << >> /\ sess[s].consumed = 8

\* A sample written back as 4 bytes, least significant first.
SampleBytes(x) ==
  << x % 256, (x \div 256) % 256, (x \div 65536) % 256, x \div 16777216 >>

RECURSIVE Serialize(_)
Serialize(samples) ==
  IF samples = << >> THEN << >>
  ELSE SampleBytes(Head(samples)) \o Serialize(Tail(samples))

\* C7: the decoded chunks, concatenated in scheduling order and written back
\* as bytes, are the first 4 * floor(N / 4) bytes of the N bytes received.
C7_Reconstruction ==
  \A s \in DOMAIN sess :
    LET scheduled == Flatten([ i \in DOMAIN NodesOf(sources, s) |->
                                 NodesOf(sources, s)[i].buffer ])
        N == Len(sess[s].input)
    IN Serialize(scheduled) = SubSeq(sess[s].input, 1, 4 * (N \div 4))

\* Seven bytes with both values, split at unaligned places into three chunks.
C7_Witness ==
  \E s \in DOMAIN sess :
    /\ sess[s].eos /\ sess[s].chunks = 3 /\ Len(sess[s].input) = 7
    /\ Len(sess[s].allBuffers) = 1
    /\ sess[s].input = << 1, 0, 0, 1, 1, 1, 0 >>

RECURSIVE SumDur(_)
SumDur(ns) == IF ns = << >> THEN 0 ELSE Head(ns).dur + SumDur(Tail(ns))

\* C8: when a session finalizes, the complete buffer is the scheduled chunks
\* concatenated in order, its sample count is the sum of theirs, and the
\* published duration is the sum of their durations.
C8_Accumulation ==
  \A s \in DOMAIN sess :
    sess[s].finalized > 0 =>
      LET ns == NodesOf(sources, s)
      IN /\ sess[s].complete = Flatten([ i \in DOMAIN ns |-> ns[i].buffer ])
         /\ Len(sess[s].complete) = SumLen([ i \in DOMAIN ns |-> ns[i].buffer ])
         /\ duration = SumDur(ns)

C8_Witness ==
  \E s \in DOMAIN sess :
    /\ sess[s].finalized = 1
    /\ Len(NodesOf(sources, s)) = 2
    /\ sess[s].complete = << 1, 256 >>

\* C9: consecutive chunks of a session are audible back to back: each begins
\* exactly when the one before it ends.
C9_GaplessPlayback ==
  \A s \in DOMAIN sess :
    LET ns == NodesOf(sources, s)
    IN \A i \in 1 .. Len(ns) - 1 :
         /\ ns[i + 1].begin >= ns[i].begin + ns[i].dur
         /\ ns[i + 1].begin <= ns[i].begin + ns[i].dur

\* The elapsed streaming time of session s on the device clock lies between
\* the time since its first chunk became audible and the time since the
\* streamAudio call; Off(p, s, now) is how far the position p is from it.
SinceCall(s, now) == now - sess[s].t0

SinceAudible(srcs, s, now) ==
  IF NodesOf(srcs, s) = << >> THEN 0 ELSE Max(0, now - NodesOf(srcs, s)[1].begin)

Off(p, lo, hi) == IF p < lo THEN lo - p ELSE IF p > hi THEN p - hi ELSE 0

\* C10: the scheduler's clock is anchored where streaming began (the first
\* chunk is scheduled at elapsed time 0, and a poll of a streaming session
\* reads the elapsed streaming time), and at a transition the element is
\* seeked to within one poll interval of the elapsed streaming time of the
\* latest session (stated for the handoff of a session that is playing).
C10_HandoffPosition ==
  /\ [] (\A s \in DOMAIN sess :
           NodesOf(sources, s) # << >> => NodesOf(sources, s)[1].start = sess[s].t0)
  /\ [][(fx'.polled /\ ~ isAudioTransitioned' /\ sess' # << >>) =>
          currentTime' = SinceCall(Len(sess), ctxTime')]_vars
  /\ [][(isPlaying /\ ~ isAudioTransitioned /\ isAudioTransitioned') =>
          Off(audio'.pos, SinceAudible(sources', Len(sess), ctxTime'),
              SinceCall(Len(sess), ctxTime')) <= PollTicks]_vars

\* 'canplay' reaches the hook while isPlaying is false and transition is enabled.
CanPlayWhilePaused ==
  enableTransition /\ ~ isPlaying /\ ~ isAudioReady /\ isAudioReady'

\* The element was handed the position and left paused; nothing is audible.
HandedOffPaused ==
  /\ isAudioTransitioned'
  /\ ~ isPlaying'
  /\ audio'.paused
  /\ audio'.pos = currentTime
  /\ ~ WebAudible'
  /\ ~ Html5Audible'

\* C11: when 'canplay' arrives while isPlaying is false (transition enabled),
\* the step leaves isAudioTransitioned true and the element paused, not
\* started, at the captured currentTime, and no engine is audible.
C11_HandoffWhilePaused == [][CanPlayWhilePaused => HandedOffPaused]_vars

\* C12: with enableTransition false, isAudioReady and isAudioTransitioned are
\* false in every reachable state, no session builds or encodes a complete
\* buffer, and the element is never given a resource, listeners, a position
\* or a play/pause (the controls act on the low-latency engine only).
C12_TransitionDisabled ==
  ~ enableTransition =>
    /\ ~ isAudioReady
    /\ ~ isAudioTransitioned
    /\ audio = InitAudio
    /\ \A s \in DOMAIN sess : sess[s].finalized = 0 /\ sess[s].complete = << >>

\* Transition disabled: a stream that was played to its end, and a control
\* called afterwards.
C12_Witness ==
  /\ ~ enableTransition
  /\ calls = 1
  /\ \E s \in DOMAIN sess :
       /\ sess[s].eos /\ sess[s].pc = "returned" /\ sess[s].allBuffers # << >>
       /\ \A i \in DOMAIN sources : sources[i].state = "over"

\* Every node scheduled so far has played to its end and dispatched 'ended'.
AllSourcesOver == \A i \in DOMAIN sources : sources[i].state = "over"

\* C13: with enableTransition false and no control ever called, once the
\* stream has signalled its end and every scheduled chunk has finished
\* playing (its 'ended' was dispatched), isPlaying is false and onEnded was
\* invoked; nothing is left that could do it later.
C13_EndDetected ==
  \A s \in DOMAIN sess :
    (~ enableTransition /\ calls = 0 /\ sess[s].eos /\ AllSourcesOver) =>
      (~ isPlaying /\ sess[s].onEnded > 0)

\* What rewind may not touch while the session is not transitioned: all but
\* the observer's record of the call.
Untouched ==
  UNCHANGED << enableTransition, isPlaying, isAudioReady, isAudioTransitioned,
               currentTime, duration, isAudioSuspended, ctxState, ctxTime,
               activeSources, isAudioPlaying, sources, audio, sess, timerAge >>

\* C14: rewind(seconds) changes nothing while isAudioTransitioned is false,
\* and sets the element's position to max(0, position - seconds) when it is true.
C14_Rewind ==
  [][fx'.rewind > 0 =>
       IF isAudioTransitioned
       THEN audio'.pos = Max(0, audio.pos - fx'.rewind)
       ELSE Untouched]_vars

\* A rewind by 1 second from position 2 of a transitioned session whose
\* resource is at least that long.
C14_Witness ==
  /\ fx.rewind = 1 /\ isAudioTransitioned
  /\ audio.pos = 1 /\ audio.dur >= 2

\* C15: a stop() called in a transitioned session leaves the element paused
\* at position 0, and the step after it, unless it is a call of a control or
\* of streamAudio, leaves it at 0.
C15_StopResets ==
  /\ [][(fx'.call = "stop" /\ isAudioTransitioned) =>
          (audio'.paused /\ audio'.pos = 0)]_vars
  /\ [][(fx.call = "stop" /\ isAudioTransitioned /\ audio.pos = 0
           /\ calls' = calls /\ Len(sess') = Len(sess)) => audio'.pos = 0]_vars

\* C16: every stop() leaves isPlaying false and activeSources empty, and a
\* stop() that follows a stop() changes nothing of the hook, the context, the
\* nodes or the element.
C16_StopIdempotent ==
  /\ [][fx'.call = "stop" => (~ isPlaying' /\ activeSources' = << >>)]_vars
  /\ [][(fx.call = "stop" /\ fx'.call = "stop") => Untouched]_vars

\* The read of session s fails in this step.
FailsNow(s) == sess[s].pc # "failed" /\ sess'[s].pc = "failed"

\* C17: a failing read ends the call with the error and touches nothing
\* that was scheduled (activeSources and every node as they were, isPlaying
\* and the flag unchanged); the failed call never reads, decodes, schedules
\* or accumulates again.
C17_ReadFailure ==
  /\ [][\A s \in DOMAIN sess :
          FailsNow(s) =>
            /\ activeSources' = activeSources
            /\ sources' = sources
            /\ isPlaying' = isPlaying
            /\ isAudioPlaying' = isAudioPlaying
            /\ audio' = audio]_vars
  /\ [][\A s \in DOMAIN sess :
          sess[s].pc = "failed" =>
            /\ sess'[s].pc = "failed"
            /\ sess'[s].chunks = sess[s].chunks
            /\ sess'[s].input = sess[s].input
            /\ sess'[s].allBuffers = sess[s].allBuffers
            /\ sess'[s].finalized = sess[s].finalized
            /\ Len(NodesOf(sources', s)) = Len(NodesOf(sources, s))]_vars

\* A read failed after a chunk was scheduled, and the chunk is still audible.
C17_Witness ==
  /\ sess # << >> /\ sess[1].pc = "failed" /\ sess[1].chunks = 1
  /\ activeSources # << >> /\ WebAudible /\ isPlaying

\* C18: whenever isPlaying is false no engine is audible: no source node is
\* sounding on a running context and the element is not playing.
C18_SilentWhenNotPlaying == ~ isPlaying => (~ WebAudible /\ ~ Html5Audible)

\* Session s is ingesting: its stream has not signalled the end and its call
\* is waiting for a read.
Ingesting(s) == sess[s].pc \in { "first", "next" } /\ ~ sess[s].eos

C20_FinalizedOnce ==
  \A s \in DOMAIN sess :
    /\ (enableTransition /\ calls = 0 /\ sess[s].eos) => sess[s].finalized = 1
    /\ sess[s].finalized > 0 => sess[s].eos
    /\ sess[s].finalized <= 1

\* C21 (TimeTracker authority): every update of currentTime made by the polling
\* timer happens while isPlaying is true and the hook is mounted, and stores the
\* element's position when isAudioTransitioned is true and the context's clock
\* otherwise; hence no timer update happens while isPlaying is false or after
\* cleanup().
C21_TimeTrackerAuthority ==
  [][ fx'.polled =>
        /\ isPlaying
        /\ Mounted
        /\ currentTime' = IF isAudioTransitioned THEN audio.pos ELSE ctxTime ]_vars

\* The timer read the element in a transitioned session, at a moment when the
\* context's clock showed something else.
C21_Witness ==
  /\ fx.polled
  /\ isAudioTransitioned
  /\ currentTime = audio.pos
  /\ currentTime # ctxTime

\* onEnded was invoked at most once for every session.
OnEndedAtMostOnce == \A s \in DOMAIN sess : sess[s].onEnded <= 1

\* Playback of session s came to its end by itself: its last source node
\* played its buffer out, or the element reached the end of its resource.
PlayedOut(s) ==
  \/ \E i \in DOMAIN sources :
       /\ sources[i].sess = s /\ sources[i].listener
       /\ sources[i].state = "ending"
       /\ sources[i].begin + sources[i].dur <= ctxTime
  \/ audio.endpending /\ audio.src = s

\* C22 (onEnded at most once per session): onEnded is invoked at most once for
\* every session, and a step invokes it for a session only when that session's
\* playback came to its end by itself, not because the handoff or a stop()
\* stopped its source nodes.
C22_OnEndedOnce ==
  /\ []OnEndedAtMostOnce
  /\ [][\A s \in DOMAIN sess :
          (s \in DOMAIN sess' /\ sess'[s].onEnded > sess[s].onEnded) => PlayedOut(s)]_vars

\* C23 (rewind survives a pause): in a transitioned session a rewind(seconds)
\* called while isPlaying is false leaves the element at max(0, p - seconds),
\* and a play() called next, the element being paused, starts the element
\* from that position.
C23_RewindSurvivesPause ==
  /\ [][(fx'.rewind > 0 /\ isAudioTransitioned /\ ~ isPlaying) =>
          (audio'.pos = Max(0, audio.pos - fx'.rewind) /\ audio'.paused = audio.paused)]_vars
  /\ [][(fx.call = "rewind" /\ isAudioTransitioned /\ ~ isPlaying /\ audio.paused
            /\ fx'.call = "play") =>
          (audio'.pos = audio.pos /\ ~ audio'.paused)]_vars

====
